---- MODULE Spec2Model ----
(***************************************************************************)
(* Model of the custom-hostname client of cloudflare-go                    *)
(* (custom_hostname.go).  Strings are sequences of characters; a string    *)
(* literal of the source that is never taken apart is one element.  The    *)
(* empty string is << >>.  An optional value (a nil-able pointer, a nil    *)
(* request body) is a sequence of length 0 or 1.                           *)
(***************************************************************************)
EXTENDS Integers, Sequences, FiniteSets, TLC

\* ------------------------------------------------------------------ bounds
MaxStore == 2        \* custom hostnames the remote service holds at most
ServerPageCap == 1   \* entries the remote service puts on one page at most
MaxPageLen == 2      \* entries of a page in a body the service did not build

\* ------------------------------------------------------------ input sets
Zones == { <<"z1">>, <<"z2">> }
Hostnames == { <<"a">>, <<"A">>, <<"a", "&", " ">> }
Pages == { -1, 1, 2, 10 }

\* ---------------------------------------------------------------- errors
NoError == << >>
\* errors.New(msg)
New(msg) == << msg >>
\* errors.Wrap(err, msg): msg in front of the wrapped error
Wrap(err, msg) == << msg >> \o err

errMakeRequestError == "error from makeRequest"
errUnmarshalError == "error unmarshalling the JSON response"
errTransport == New("transport failure")
errSyntax == New("json: invalid character")
errType == New("json: cannot unmarshal")

\* ----------------------------------------------------------- data model
ZeroSSL == [Status |-> << >>, Method |-> << >>, Type |-> << >>,
            CNAMETarget |-> << >>, CNAMEName |-> << >>]
ZeroCustomHostname ==
    [ID |-> << >>, Hostname |-> << >>, CustomOriginServer |-> << >>,
     SSL |-> ZeroSSL, CustomMetadata |-> {}]
ZeroResultInfo == [Page |-> 0, PerPage |-> 0, Count |-> 0]

\* ----------------------------------------------------- strconv.Itoa
DigitChar == <<"0", "1", "2", "3", "4", "5", "6", "7", "8", "9">>

RECURSIVE Digits(_)
Digits(n) ==
    IF n < 10 THEN << DigitChar[n + 1] >>
    ELSE Digits(n \div 10) \o << DigitChar[(n % 10) + 1] >>

Itoa(n) == IF n < 0 THEN <<"-">> \o Digits(-n) ELSE Digits(n)

\* the identifiers the remote service assigns, and one more it never assigned
IdOf(n) == <<"id">> \o Digits(n)
Ids == { IdOf(n) : n \in 1..(MaxStore + 1) }

\* ------------------------------------------------- url.QueryEscape
PercentCode ==
    [c \in {"&", "=", "+", "%", "?", "/"} |->
        CASE c = "&" -> <<"%", "2", "6">>
          [] c = "=" -> <<"%", "3", "D">>
          [] c = "+" -> <<"%", "2", "B">>
          [] c = "%" -> <<"%", "2", "5">>
          [] c = "?" -> <<"%", "3", "F">>
          [] c = "/" -> <<"%", "2", "F">>]

EscapeChar(c) ==
    IF c = " " THEN <<"+">>
    ELSE IF c \in DOMAIN PercentCode THEN PercentCode[c]
    ELSE << c >>

RECURSIVE QueryEscape(_)
QueryEscape(s) ==
    IF s = << >> THEN << >>
    ELSE EscapeChar(Head(s)) \o QueryEscape(Tail(s))

\* ------------------------------------------------------- url.Values
\* url.Values is a map from a key to a list of values.
EmptyValues == {}
\* v.Set(key, value): the key's list becomes the single value
ValuesSet(v, key, value) ==
    { p \in v : p[1] # key } \cup { << key, << value >> >> }

\* the keys this file sets, in the byte order Encode sorts them in
KeyOrder == << "hostname", "page", "per_page" >>

RECURSIVE EncodeList(_, _)
EncodeList(key, vals) ==
    IF vals = << >> THEN << >>
    ELSE << << key >> \o <<"=">> \o QueryEscape(Head(vals)) >>
         \o EncodeList(key, Tail(vals))

\* the parameters of one key, none when the map does not have the key
EncodeKey(v, key) ==
    IF \E p \in v : p[1] = key
    THEN EncodeList(key, (CHOOSE p \in v : p[1] = key)[2])
    ELSE << >>

RECURSIVE EncodeFrom(_, _)
EncodeFrom(v, i) ==
    IF i > Len(KeyOrder) THEN << >>
    ELSE EncodeKey(v, KeyOrder[i]) \o EncodeFrom(v, i + 1)

RECURSIVE JoinAmp(_)
JoinAmp(parts) ==
    IF parts = << >> THEN << >>
    ELSE IF Len(parts) = 1 THEN parts[1]
    ELSE parts[1] \o <<"&">> \o JoinAmp(Tail(parts))

\* v.Encode()
Encode(v) == JoinAmp(EncodeFrom(v, 1))

\* ------------------------------------------------------------- JSON
\* A response body is a JSON text: <<"invalid">> is a text that is not
\* JSON, the others are JSON values tagged by their kind.  An object is the
\* sequence of its <<key, value>> members.
InvalidJSON == <<"invalid">>
JSONNull == <<"null">>
Absent == <<"absent">>
JString(s) == <<"string", s>>
JNumber(n) == <<"number", n>>
JObject(members) == <<"object", members>>
JArray(elems) == <<"array", elems>>
Kind(v) == v[1]

\* the value of the last member named key, Absent when there is none
RECURSIVE Member(_, _)
Member(members, key) ==
    IF members = << >> THEN Absent
    ELSE IF members[Len(members)][1] = key THEN members[Len(members)][2]
    ELSE Member(SubSeq(members, 1, Len(members) - 1), key)

FirstError(errs) ==
    IF \E i \in 1..Len(errs) : errs[i] # NoError
    THEN errs[CHOOSE i \in 1..Len(errs) :
                 errs[i] # NoError /\ \A j \in 1..(i - 1) : errs[j] = NoError]
    ELSE NoError

\* a member with omitempty: left out when the string is empty
OmitEmpty(key, s) == IF s = << >> THEN << >> ELSE << <<key, JString(s)>> >>

RECURSIVE SetToSeq(_)
PutFirst(x, S) == << x >> \o SetToSeq(S \ {x})
SetToSeq(S) == IF S = {} THEN << >> ELSE PutFirst(CHOOSE y \in S : TRUE, S)

\* encoding/json on CustomHostnameSSL
MarshalSSL(ssl) ==
    JObject(OmitEmpty("status", ssl.Status) \o OmitEmpty("method", ssl.Method)
            \o OmitEmpty("type", ssl.Type)
            \o OmitEmpty("cname_target", ssl.CNAMETarget)
            \o OmitEmpty("cname_name", ssl.CNAMEName))

\* encoding/json on CustomHostname: a struct member is never omitted
MarshalCustomHostname(ch) ==
    JObject(OmitEmpty("id", ch.ID) \o OmitEmpty("hostname", ch.Hostname)
            \o OmitEmpty("custom_origin_server", ch.CustomOriginServer)
            \o << <<"ssl", MarshalSSL(ch.SSL)>> >>
            \o (IF ch.CustomMetadata = {} THEN << >>
                ELSE << <<"custom_metadata",
                          JObject(SetToSeq(ch.CustomMetadata))>> >>))

\* Decoding is written as two operators for each target type: the value
\* json.Unmarshal leaves in the target, and the error it returns.  null and
\* a missing member leave the target alone; a value of the wrong kind is a
\* type error.
UnmarshalString(v) == IF Kind(v) = "string" THEN v[2] ELSE << >>

UnmarshalStringError(v) ==
    IF Kind(v) \in {"string", "null", "absent"} THEN NoError ELSE errType

UnmarshalInt(v) == IF Kind(v) = "number" THEN v[2] ELSE 0

UnmarshalIntError(v) ==
    IF Kind(v) \in {"number", "null", "absent"} THEN NoError ELSE errType

UnmarshalSSL(v) ==
    IF Kind(v) = "object"
    THEN [Status |-> UnmarshalString(Member(v[2], "status")),
          Method |-> UnmarshalString(Member(v[2], "method")),
          Type |-> UnmarshalString(Member(v[2], "type")),
          CNAMETarget |-> UnmarshalString(Member(v[2], "cname_target")),
          CNAMEName |-> UnmarshalString(Member(v[2], "cname_name"))]
    ELSE ZeroSSL

UnmarshalSSLError(v) ==
    CASE Kind(v) = "object" ->
           FirstError(<< UnmarshalStringError(Member(v[2], "status")),
                         UnmarshalStringError(Member(v[2], "method")),
                         UnmarshalStringError(Member(v[2], "type")),
                         UnmarshalStringError(Member(v[2], "cname_target")),
                         UnmarshalStringError(Member(v[2], "cname_name")) >>)
      [] Kind(v) \in {"null", "absent"} -> NoError
      [] OTHER -> errType

\* decoding into CustomMetadata, a map of string to anything
UnmarshalCustomMetadata(v) ==
    IF Kind(v) = "object"
    THEN { << v[2][i][1], Member(v[2], v[2][i][1]) >> : i \in 1..Len(v[2]) }
    ELSE {}

UnmarshalCustomMetadataError(v) ==
    IF Kind(v) \in {"object", "null", "absent"} THEN NoError ELSE errType

UnmarshalCustomHostname(v) ==
    IF Kind(v) = "object"
    THEN [ID |-> UnmarshalString(Member(v[2], "id")),
          Hostname |-> UnmarshalString(Member(v[2], "hostname")),
          CustomOriginServer |->
              UnmarshalString(Member(v[2], "custom_origin_server")),
          SSL |-> UnmarshalSSL(Member(v[2], "ssl")),
          CustomMetadata |->
              UnmarshalCustomMetadata(Member(v[2], "custom_metadata"))]
    ELSE ZeroCustomHostname

UnmarshalCustomHostnameError(v) ==
    CASE Kind(v) = "object" ->
           FirstError(<<
               UnmarshalStringError(Member(v[2], "id")),
               UnmarshalStringError(Member(v[2], "hostname")),
               UnmarshalStringError(Member(v[2], "custom_origin_server")),
               UnmarshalSSLError(Member(v[2], "ssl")),
               UnmarshalCustomMetadataError(Member(v[2], "custom_metadata")) >>)
      [] Kind(v) \in {"null", "absent"} -> NoError
      [] OTHER -> errType

ZeroCustomHostnameResponse == [Result |-> ZeroCustomHostname]

\* json.Unmarshal(res, &response) with response a CustomHostnameResponse
UnmarshalCustomHostnameResponse(res) ==
    IF Kind(res) = "object"
    THEN [Result |-> UnmarshalCustomHostname(Member(res[2], "result"))]
    ELSE ZeroCustomHostnameResponse

UnmarshalCustomHostnameResponseError(res) ==
    CASE Kind(res) = "invalid" -> errSyntax
      [] Kind(res) = "null" -> NoError
      [] Kind(res) = "object" ->
           UnmarshalCustomHostnameError(Member(res[2], "result"))
      [] OTHER -> errType

\* json.Unmarshal(res, &response) with response a nil *CustomHostnameResponse:
\* a text that is not JSON and JSON null leave the pointer nil, any other
\* value allocates the response
UnmarshalCustomHostnameResponsePtr(res) ==
    IF Kind(res) \in {"invalid", "null"} THEN << >>
    ELSE << UnmarshalCustomHostnameResponse(res) >>

UnmarshalCustomHostnames(v) ==
    IF Kind(v) = "array"
    THEN [i \in 1..Len(v[2]) |-> UnmarshalCustomHostname(v[2][i])]
    ELSE << >>

UnmarshalCustomHostnamesError(v) ==
    CASE Kind(v) = "array" ->
           FirstError([i \in 1..Len(v[2]) |->
                          UnmarshalCustomHostnameError(v[2][i])])
      [] Kind(v) \in {"null", "absent"} -> NoError
      [] OTHER -> errType

UnmarshalResultInfo(v) ==
    IF Kind(v) = "object"
    THEN [Page |-> UnmarshalInt(Member(v[2], "page")),
          PerPage |-> UnmarshalInt(Member(v[2], "per_page")),
          Count |-> UnmarshalInt(Member(v[2], "count"))]
    ELSE ZeroResultInfo

UnmarshalResultInfoError(v) ==
    CASE Kind(v) = "object" ->
           FirstError(<< UnmarshalIntError(Member(v[2], "page")),
                         UnmarshalIntError(Member(v[2], "per_page")),
                         UnmarshalIntError(Member(v[2], "count")) >>)
      [] Kind(v) \in {"null", "absent"} -> NoError
      [] OTHER -> errType

ZeroCustomHostnameListResponse ==
    [Result |-> << >>, ResultInfo |-> ZeroResultInfo]

\* json.Unmarshal(res, &customHostnameListResponse)
UnmarshalCustomHostnameListResponse(res) ==
    IF Kind(res) = "object"
    THEN [Result |-> UnmarshalCustomHostnames(Member(res[2], "result")),
          ResultInfo |-> UnmarshalResultInfo(Member(res[2], "result_info"))]
    ELSE ZeroCustomHostnameListResponse

UnmarshalCustomHostnameListResponseError(res) ==
    CASE Kind(res) = "invalid" -> errSyntax
      [] Kind(res) = "null" -> NoError
      [] Kind(res) = "object" ->
           FirstError(<<
               UnmarshalCustomHostnamesError(Member(res[2], "result")),
               UnmarshalResultInfoError(Member(res[2], "result_info")) >>)
      [] OTHER -> errType

\* ------------------------------------------------ the remote service
\* What api.makeRequest talks to: a service that stores the custom
\* hostnames of each zone.  store is the sequence of its entries, oldest
\* first; doc is the JSON object of the entry.
Min(a, b) == IF a < b THEN a ELSE b

DigitVal(c) == CHOOSE d \in 0..9 : DigitChar[d + 1] = c

RECURSIVE AtoiDigits(_)
AtoiDigits(s) ==
    IF s = << >> THEN 0
    ELSE 10 * AtoiDigits(SubSeq(s, 1, Len(s) - 1)) + DigitVal(s[Len(s)])

Atoi(s) == IF s # << >> /\ Head(s) = "-" THEN 0 - AtoiDigits(Tail(s))
           ELSE AtoiDigits(s)

RECURSIVE Unescape(_)
Unescape(s) ==
    IF s = << >> THEN << >>
    ELSE IF Head(s) = "+" THEN <<" ">> \o Unescape(Tail(s))
    ELSE IF Head(s) = "%" /\ Len(s) >= 3
         THEN << CHOOSE c \in DOMAIN PercentCode :
                    PercentCode[c] = SubSeq(s, 1, 3) >>
              \o Unescape(SubSeq(s, 4, Len(s)))
    ELSE << Head(s) >> \o Unescape(Tail(s))

\* the index of the first element of s equal to c, Len(s) + 1 when none is
IndexOf(s, c) ==
    IF \E i \in 1..Len(s) : s[i] = c
    THEN CHOOSE i \in 1..Len(s) : s[i] = c /\ \A j \in 1..(i - 1) : s[j] # c
    ELSE Len(s) + 1

RECURSIVE SplitAmp(_)
SplitAt(q, i) ==
    << SubSeq(q, 1, i - 1) >>
    \o (IF i >= Len(q) THEN << >> ELSE SplitAmp(SubSeq(q, i + 1, Len(q))))

SplitAmp(q) == IF q = << >> THEN << >> ELSE SplitAt(q, IndexOf(q, "&"))

ParseParam(seg, i) ==
    << Unescape(SubSeq(seg, 1, i - 1)), Unescape(SubSeq(seg, i + 1, Len(seg))) >>

ParseSegments(segs) ==
    [n \in 1..Len(segs) |-> ParseParam(segs[n], IndexOf(segs[n], "="))]

\* url.ParseQuery: the <<key, value>> parameters of a query, in order
ParseQuery(q) == ParseSegments(SplitAmp(q))

\* the value of the first parameter named key, as url.Values.Get
QueryGet(params, key) ==
    IF \E i \in 1..Len(params) : params[i][1] = key
    THEN params[CHOOSE i \in 1..Len(params) :
                   params[i][1] = key
                   /\ \A j \in 1..(i - 1) : params[j][1] # key][2]
    ELSE << >>

LowerChar(c) == IF c = "A" THEN "a" ELSE c
Lower(s) == [i \in 1..Len(s) |-> LowerChar(s[i])]

DocHostname(doc) == UnmarshalString(Member(doc[2], "hostname"))

Matches(e, zoneID, hostname) ==
    /\ e.zone = zoneID
    /\ (hostname = << >> \/ Lower(DocHostname(e.doc)) = Lower(hostname))

RECURSIVE Select(_, _, _)
Select(entries, zoneID, hostname) ==
    IF entries = << >> THEN << >>
    ELSE (IF Matches(Head(entries), zoneID, hostname)
          THEN << Head(entries) >> ELSE << >>)
         \o Select(Tail(entries), zoneID, hostname)

RECURSIVE Remove(_, _, _)
Remove(entries, zoneID, id) ==
    IF entries = << >> THEN << >>
    ELSE IF Head(entries).zone = zoneID /\ Head(entries).id = id
         THEN Tail(entries)
         ELSE << Head(entries) >> \o Remove(Tail(entries), zoneID, id)

FreeId(entries) ==
    IdOf(CHOOSE n \in 1..MaxStore :
            /\ \A i \in 1..Len(entries) : entries[i].id # IdOf(n)
            /\ \A m \in 1..(n - 1) :
                  \E i \in 1..Len(entries) : entries[i].id = IdOf(m))

\* the members of a JSON object without those named key
RECURSIVE Without(_, _)
Without(members, key) ==
    IF members = << >> THEN << >>
    ELSE IF Head(members)[1] = key THEN Without(Tail(members), key)
    ELSE << Head(members) >> \o Without(Tail(members), key)

Refused(entries) ==
    [kind |-> "served", err |-> errTransport, res |-> InvalidJSON,
     store |-> entries]

Envelope(result, entries) ==
    [kind |-> "served", err |-> NoError,
     res |-> JObject(<< <<"result", result>>, <<"success", <<"true">>>> >>),
     store |-> entries]

Accept(entries, zoneID, id, doc) ==
    Envelope(doc, Append(entries, [zone |-> zoneID, id |-> id, doc |-> doc]))

\* a hostname is required, the service holds MaxStore entries at most and
\* one entry for each hostname of a zone
StoreDoc(entries, zoneID, body) ==
    IF \/ DocHostname(body) = << >>
       \/ Len(entries) >= MaxStore
       \/ \E i \in 1..Len(entries) :
             /\ entries[i].zone = zoneID
             /\ DocHostname(entries[i].doc) = DocHostname(body)
    THEN Refused(entries)
    ELSE Accept(entries, zoneID, FreeId(entries),
                JObject(<< <<"id", JString(FreeId(entries))>> >>
                        \o Without(body[2], "id")))

\* makeRequest sends params as JSON
ServeCreate(entries, zoneID, params) ==
    IF params = << >> THEN Refused(entries)
    ELSE StoreDoc(entries, zoneID, MarshalCustomHostname(params[1]))

ServeItem(entries, method, zoneID, id) ==
    IF \A i \in 1..Len(entries) : ~(entries[i].zone = zoneID /\ entries[i].id = id)
    THEN Refused(entries)
    ELSE IF method = "GET"
    THEN Envelope(entries[CHOOSE i \in 1..Len(entries) :
                             entries[i].zone = zoneID /\ entries[i].id = id].doc,
                  entries)
    ELSE Envelope(JObject(<< <<"id", JString(id)>> >>),
                  Remove(entries, zoneID, id))

PageEnvelope(entries, page, size, shown) ==
    [kind |-> "served", err |-> NoError,
     res |-> JObject(<<
        <<"result", JArray([i \in 1..Len(shown) |-> shown[i].doc])>>,
        <<"result_info", JObject(<<
            <<"page", JNumber(page)>>,
            <<"per_page", JNumber(size)>>,
            <<"count", JNumber(Len(shown))>> >>)>> >>),
     store |-> entries]

Slice(found, from, to) ==
    IF from > to THEN << >> ELSE SubSeq(found, from, to)

ServePage(entries, page, size, found) ==
    PageEnvelope(entries, page, size,
                 Slice(found, (page - 1) * size + 1,
                       Min(page * size, Len(found))))

ServeList(entries, zoneID, params) ==
    IF \/ Atoi(QueryGet(params, <<"page">>)) < 1
       \/ Atoi(QueryGet(params, <<"per_page">>)) < 1
    THEN Refused(entries)
    ELSE ServePage(entries, Atoi(QueryGet(params, <<"page">>)),
                   Min(Atoi(QueryGet(params, <<"per_page">>)), ServerPageCap),
                   Select(entries, zoneID, QueryGet(params, <<"hostname">>)))

\* the service's answer to one request
Serve(entries, req) ==
    CASE req.method = "POST" /\ Len(req.uri) = 3
         /\ req.uri[3] = "/custom_hostnames" ->
           ServeCreate(entries, << req.uri[2] >>, req.params)
      [] req.method = "GET" /\ Len(req.uri) > 3
         /\ req.uri[3] = "/custom_hostnames" /\ req.uri[4] = "?" ->
           ServeList(entries, << req.uri[2] >>,
                     ParseQuery(SubSeq(req.uri, 5, Len(req.uri))))
      [] req.method \in {"GET", "DELETE"} /\ Len(req.uri) > 3
         /\ req.uri[3] = "/custom_hostnames/" ->
           ServeItem(entries, req.method, << req.uri[2] >>,
                     SubSeq(req.uri, 4, Len(req.uri)))
      [] OTHER -> Refused(entries)

\* bodies that are not the service's answer to the request
ForeignEntries ==
    { JObject(<< <<"id", JString(IdOf(1))>>, <<"hostname", JString(<<"A">>)>> >>),
      JObject(<< <<"id", JString(IdOf(2))>>, <<"hostname", JString(<<"a">>)>> >>) }

ForeignPages ==
    UNION { [1..n -> ForeignEntries] : n \in 0..MaxPageLen }

ForeignBodies ==
    { InvalidJSON, JSONNull, JNumber(7), JObject(<< >>),
      JObject(<< <<"result", JString(<<"x">>)>> >>) }
    \cup { JObject(<< <<"result", e>> >>) : e \in ForeignEntries }
    \cup { JObject(<< <<"result", JArray(p)>> >>) : p \in ForeignPages }

\* api.makeRequest(method, uri, params): every outcome the call can have.
\* The call fails, or the service answers, or the bytes that come back are
\* not the service's answer.
makeRequest(entries, req) ==
    { Serve(entries, req) }
    \cup { [kind |-> "failed", err |-> errTransport, res |-> InvalidJSON,
            store |-> entries] }
    \cup { [kind |-> "foreign", err |-> NoError, res |-> b, store |-> entries] :
             b \in ForeignBodies }


\* ------------------------------------------------------ the client
\* Each operation is an operator of its arguments and of out, the outcome
\* of its call of api.makeRequest (out.err, out.res).  It yields the
\* transport calls the operation made and its return values.
Request(method, uri, params) ==
    [method |-> method, uri |-> uri, params |-> params]

\* the return values an operation's signature does not have stay zero
Returned(made, err) ==
    [calls |-> made, err |-> err, ch |-> ZeroCustomHostname, ptr |-> << >>,
     list |-> << >>, info |-> ZeroResultInfo, id |-> << >>]

\* a variant that sends the update to the service
UpdateCustomHostnameSSL_Patch(zoneID, customHostnameID, ssl) ==
    Returned(<< Request("PATCH",
                  <<"/zones/">> \o zoneID \o <<"/custom_hostnames/">>
                      \o customHostnameID,
                  << >>) >>,
             New("Not implemented"))

UpdateCustomHostnameSSL(zoneID, customHostnameID, ssl) ==
    Returned(<< >>, New("Not implemented"))

DeleteRequest(zoneID, customHostnameID) ==
    Request("DELETE",
            <<"/zones/">> \o zoneID \o <<"/custom_hostnames/">> \o customHostnameID,
            << >>)

\* a variant that looks into the parsed body
DeleteCustomHostname_Inspect(zoneID, customHostnameID, out) ==
    IF out.err # NoError
    THEN Returned(<< DeleteRequest(zoneID, customHostnameID) >>,
                  Wrap(out.err, errMakeRequestError))
    ELSE IF UnmarshalCustomHostnameResponseError(out.res) # NoError
    THEN Returned(<< DeleteRequest(zoneID, customHostnameID) >>,
                  Wrap(UnmarshalCustomHostnameResponseError(out.res),
                       errUnmarshalError))
    ELSE IF UnmarshalCustomHostnameResponse(out.res).Result.ID = << >>
    THEN Returned(<< DeleteRequest(zoneID, customHostnameID) >>,
                  New("delete failed"))
    ELSE Returned(<< DeleteRequest(zoneID, customHostnameID) >>, NoError)

\* a variant that tries again after a failed call
DeleteCustomHostname_Retry(zoneID, customHostnameID, out) ==
    IF out.err # NoError
    THEN Returned(<< DeleteRequest(zoneID, customHostnameID),
                     DeleteRequest(zoneID, customHostnameID) >>,
                  Wrap(out.err, errMakeRequestError))
    ELSE IF UnmarshalCustomHostnameResponseError(out.res) # NoError
    THEN Returned(<< DeleteRequest(zoneID, customHostnameID) >>,
                  Wrap(UnmarshalCustomHostnameResponseError(out.res),
                       errUnmarshalError))
    ELSE Returned(<< DeleteRequest(zoneID, customHostnameID) >>, NoError)

DeleteCustomHostname(zoneID, customHostnameID, out) ==
    IF out.err # NoError
    THEN Returned(<< DeleteRequest(zoneID, customHostnameID) >>,
                  Wrap(out.err, errMakeRequestError))
    ELSE IF UnmarshalCustomHostnameResponseError(out.res) # NoError
    THEN Returned(<< DeleteRequest(zoneID, customHostnameID) >>,
                  Wrap(UnmarshalCustomHostnameResponseError(out.res),
                       errUnmarshalError))
    ELSE Returned(<< DeleteRequest(zoneID, customHostnameID) >>, NoError)

CreateRequest(zoneID, ch) ==
    Request("POST", <<"/zones/">> \o zoneID \o <<"/custom_hostnames">>, << ch >>)

CreateCustomHostname(zoneID, ch, out) ==
    IF out.err # NoError
    THEN Returned(<< CreateRequest(zoneID, ch) >>,
                  Wrap(out.err, errMakeRequestError))
    ELSE IF UnmarshalCustomHostnameResponseError(out.res) # NoError
    THEN Returned(<< CreateRequest(zoneID, ch) >>,
                  Wrap(UnmarshalCustomHostnameResponseError(out.res),
                       errUnmarshalError))
    ELSE [Returned(<< CreateRequest(zoneID, ch) >>, NoError) EXCEPT
            !.ptr = UnmarshalCustomHostnameResponsePtr(out.res)]

\* a variant that sets the hostname parameter unconditionally
FilterValues_Always(page, filter) ==
    ValuesSet(ValuesSet(ValuesSet(EmptyValues, "per_page", <<"5", "0">>),
                        "page", Itoa(page)),
              "hostname", filter.Hostname)

\* the url.Values FilterCustomHostnames builds
FilterValues(page, filter) ==
    IF filter.Hostname # << >>
    THEN ValuesSet(ValuesSet(ValuesSet(EmptyValues, "per_page", <<"5", "0">>),
                             "page", Itoa(page)),
                   "hostname", filter.Hostname)
    ELSE ValuesSet(ValuesSet(EmptyValues, "per_page", <<"5", "0">>),
                   "page", Itoa(page))

FilterRequest(zoneID, page, filter) ==
    Request("GET",
            <<"/zones/">> \o zoneID \o <<"/custom_hostnames">>
                \o <<"?">> \o Encode(FilterValues(page, filter)),
            << >>)

FilterCustomHostnames(zoneID, page, filter, out) ==
    IF out.err # NoError
    THEN Returned(<< FilterRequest(zoneID, page, filter) >>,
                  Wrap(out.err, errMakeRequestError))
    ELSE IF UnmarshalCustomHostnameListResponseError(out.res) # NoError
    THEN Returned(<< FilterRequest(zoneID, page, filter) >>,
                  Wrap(UnmarshalCustomHostnameListResponseError(out.res),
                       errMakeRequestError))
    ELSE [Returned(<< FilterRequest(zoneID, page, filter) >>, NoError) EXCEPT
            !.list = UnmarshalCustomHostnameListResponse(out.res).Result,
            !.info = UnmarshalCustomHostnameListResponse(out.res).ResultInfo]

\* a variant that always asks for the first page
ListCustomHostnames_FirstPage(zoneID, page, out) ==
    FilterCustomHostnames(zoneID, 1, ZeroCustomHostname, out)

ListCustomHostnames(zoneID, page, out) ==
    FilterCustomHostnames(zoneID, page, ZeroCustomHostname, out)

GetRequest(zoneID, customHostnameID) ==
    Request("GET",
            <<"/zones/">> \o zoneID \o <<"/custom_hostnames/">> \o customHostnameID,
            << >>)

\* a variant that forgets the parsed result
CustomHostname_Zero(zoneID, customHostnameID, out) ==
    IF out.err # NoError
    THEN Returned(<< GetRequest(zoneID, customHostnameID) >>,
                  Wrap(out.err, errMakeRequestError))
    ELSE IF UnmarshalCustomHostnameResponseError(out.res) # NoError
    THEN Returned(<< GetRequest(zoneID, customHostnameID) >>,
                  Wrap(UnmarshalCustomHostnameResponseError(out.res),
                       errUnmarshalError))
    ELSE Returned(<< GetRequest(zoneID, customHostnameID) >>, NoError)

CustomHostname(zoneID, customHostnameID, out) ==
    IF out.err # NoError
    THEN Returned(<< GetRequest(zoneID, customHostnameID) >>,
                  Wrap(out.err, errMakeRequestError))
    ELSE IF UnmarshalCustomHostnameResponseError(out.res) # NoError
    THEN Returned(<< GetRequest(zoneID, customHostnameID) >>,
                  Wrap(UnmarshalCustomHostnameResponseError(out.res),
                       errUnmarshalError))
    ELSE [Returned(<< GetRequest(zoneID, customHostnameID) >>, NoError) EXCEPT
            !.ch = UnmarshalCustomHostnameResponse(out.res).Result]

\* a variant that compares without regard to case
FirstMatch_Fold(customHostnames, hostname) ==
    IF \E i \in 1..Len(customHostnames) :
          Lower(customHostnames[i].Hostname) = Lower(hostname)
    THEN << CHOOSE i \in 1..Len(customHostnames) :
              /\ Lower(customHostnames[i].Hostname) = Lower(hostname)
              /\ \A j \in 1..(i - 1) :
                    Lower(customHostnames[j].Hostname) # Lower(hostname) >>
    ELSE << >>

\* the loop of CustomHostnameIDByName: the index of the first entry whose
\* hostname is the queried one, none when the loop runs to its end
FirstMatch(customHostnames, hostname) ==
    IF \E i \in 1..Len(customHostnames) : customHostnames[i].Hostname = hostname
    THEN << CHOOSE i \in 1..Len(customHostnames) :
              /\ customHostnames[i].Hostname = hostname
              /\ \A j \in 1..(i - 1) : customHostnames[j].Hostname # hostname >>
    ELSE << >>

\* what CustomHostnameIDByName returns after the loop stopped at hit
IDByNameReturn(made, customHostnames, hit) ==
    IF hit # << >>
    THEN [Returned(made, NoError) EXCEPT !.id = customHostnames[hit[1]].ID]
    ELSE Returned(made, New("the custom hostname could not be found"))

\* CustomHostnameIDByName from the return of its FilterCustomHostnames call on
IDByNameScan(f, hostname) ==
    IF f.err # NoError
    THEN Returned(f.calls, Wrap(f.err, "failed to fetch CustomHostnameIDByName"))
    ELSE IDByNameReturn(f.calls, f.list, FirstMatch(f.list, hostname))

IDByNameRequest(zoneID, hostname) ==
    FilterRequest(zoneID, 1, [ZeroCustomHostname EXCEPT !.Hostname = hostname])

\* a variant that looks at the second page
CustomHostnameIDByName_SecondPage(zoneID, hostname, out) ==
    IDByNameScan(FilterCustomHostnames(zoneID, 2,
                    [ZeroCustomHostname EXCEPT !.Hostname = hostname], out),
                 hostname)

CustomHostnameIDByName(zoneID, hostname, out) ==
    IDByNameScan(FilterCustomHostnames(zoneID, 1,
                    [ZeroCustomHostname EXCEPT !.Hostname = hostname], out),
                 hostname)

\* ------------------------------------------------------ state machine
VARIABLES
    store,     \* the entries the remote service holds
    created,   \* <<zone, id, hostname>> of every hostname a Create returned
               \* from the service and no Delete has removed since
    last,      \* the operation that has just returned, with its arguments,
               \* the outcome of its transport call and its return values
    calls      \* the log of the transport calls of that operation

vars == << store, created, last, calls >>

SomeSSL == [ZeroSSL EXCEPT !.Method = <<"http">>, !.Type = <<"dv">>]
SomeMetadata == { << "k", JString(<<"v">>) >> }
Decorated(h) ==
    [ID |-> IdOf(2), Hostname |-> h, CustomOriginServer |-> <<"o">>,
     SSL |-> SomeSSL, CustomMetadata |-> SomeMetadata]
Bare(h) == [ZeroCustomHostname EXCEPT !.Hostname = h]

CreateInputs == { Bare(h) : h \in (Hostnames \ { <<"a">> }) \cup { << >> } }
                \cup { Decorated(<<"a">>) }
FilterInputs == { Bare(h) : h \in Hostnames \cup { << >> } }
                \cup { Decorated(<<"a">>), Decorated(<< >>) }
SSLInputs == { ZeroSSL, SomeSSL }

NoOutcome == [kind |-> "none", err |-> NoError, res |-> InvalidJSON]
NoCall ==
    [op |-> "none", zoneID |-> << >>, id |-> << >>, page |-> 0,
     ch |-> ZeroCustomHostname, hostname |-> << >>, out |-> NoOutcome,
     ret |-> Returned(<< >>, NoError)]

Outcome(out) == [kind |-> out.kind, err |-> out.err, res |-> out.res]

Init ==
    /\ store = << >>
    /\ created = {}
    /\ last = NoCall
    /\ calls = << >>

Idle == last.op = "none"

UpdateSSL(zoneID, id, ssl) ==
    /\ Idle
    /\ \E r \in { UpdateCustomHostnameSSL(zoneID, id, ssl) } :
          /\ last' = [NoCall EXCEPT !.op = "UpdateSSL", !.zoneID = zoneID,
                                    !.id = id, !.ch.SSL = ssl, !.ret = r]
          /\ calls' = calls \o r.calls
    /\ UNCHANGED << store, created >>

Delete(zoneID, id) ==
    /\ Idle
    /\ \E out \in makeRequest(store, DeleteRequest(zoneID, id)) :
       \E r \in { DeleteCustomHostname(zoneID, id, out) } :
          /\ last' = [NoCall EXCEPT !.op = "Delete", !.zoneID = zoneID,
                                    !.id = id, !.out = Outcome(out), !.ret = r]
          /\ calls' = calls \o r.calls
          /\ store' = out.store
          /\ created' = IF out.kind = "served" /\ out.err = NoError
                        THEN { c \in created : ~(c[1] = zoneID /\ c[2] = id) }
                        ELSE created

Create(zoneID, ch) ==
    /\ Idle
    /\ \E out \in makeRequest(store, CreateRequest(zoneID, ch)) :
       \E r \in { CreateCustomHostname(zoneID, ch, out) } :
          /\ last' = [NoCall EXCEPT !.op = "Create", !.zoneID = zoneID,
                                    !.ch = ch, !.out = Outcome(out), !.ret = r]
          /\ calls' = calls \o r.calls
          /\ store' = out.store
          /\ created' = IF out.kind = "served" /\ r.err = NoError /\ r.ptr # << >>
                        THEN created \cup
                             { << zoneID, r.ptr[1].Result.ID, ch.Hostname >> }
                        ELSE created

Filter(zoneID, page, filter) ==
    /\ Idle
    /\ \E out \in makeRequest(store, FilterRequest(zoneID, page, filter)) :
       \E r \in { FilterCustomHostnames(zoneID, page, filter, out) } :
          /\ last' = [NoCall EXCEPT !.op = "Filter", !.zoneID = zoneID,
                                    !.page = page, !.ch = filter,
                                    !.out = Outcome(out), !.ret = r]
          /\ calls' = calls \o r.calls
          /\ store' = out.store
    /\ UNCHANGED created

List(zoneID, page) ==
    /\ Idle
    /\ \E out \in makeRequest(store,
                      FilterRequest(zoneID, page, ZeroCustomHostname)) :
       \E r \in { ListCustomHostnames(zoneID, page, out) } :
          /\ last' = [NoCall EXCEPT !.op = "List", !.zoneID = zoneID,
                                    !.page = page,
                                    !.out = Outcome(out), !.ret = r]
          /\ calls' = calls \o r.calls
          /\ store' = out.store
    /\ UNCHANGED created

Get(zoneID, id) ==
    /\ Idle
    /\ \E out \in makeRequest(store, GetRequest(zoneID, id)) :
       \E r \in { CustomHostname(zoneID, id, out) } :
          /\ last' = [NoCall EXCEPT !.op = "Get", !.zoneID = zoneID,
                                    !.id = id, !.out = Outcome(out), !.ret = r]
          /\ calls' = calls \o r.calls
          /\ store' = out.store
    /\ UNCHANGED created

IDByName(zoneID, hostname) ==
    /\ Idle
    /\ \E out \in makeRequest(store, IDByNameRequest(zoneID, hostname)) :
       \E r \in { CustomHostnameIDByName(zoneID, hostname, out) } :
          /\ last' = [NoCall EXCEPT !.op = "IDByName", !.zoneID = zoneID,
                                    !.hostname = hostname,
                                    !.out = Outcome(out), !.ret = r]
          /\ calls' = calls \o r.calls
          /\ store' = out.store
    /\ UNCHANGED created

\* the caller drops what the operation returned: nothing is kept between
\* calls
Forget ==
    /\ ~Idle
    /\ last' = NoCall
    /\ calls' = << >>
    /\ UNCHANGED << store, created >>

Next ==
    \/ \E z \in Zones, id \in Ids, ssl \in SSLInputs : UpdateSSL(z, id, ssl)
    \/ \E z \in Zones, id \in Ids : Delete(z, id)
    \/ \E z \in Zones, ch \in CreateInputs : Create(z, ch)
    \/ \E z \in Zones, p \in Pages, f \in FilterInputs : Filter(z, p, f)
    \/ \E z \in Zones, p \in Pages : List(z, p)
    \/ \E z \in Zones, id \in Ids : Get(z, id)
    \/ \E z \in Zones, h \in Hostnames : IDByName(z, h)
    \/ Forget

Spec == Init /\ [][Next]_vars

\* ============================================================ properties

C2_FilterQuery ==
    last.op = "Filter" =>
        /\ Len(calls) = 1
        /\ LET uri == calls[1].uri
               q == ParseQuery(SubSeq(uri, 5, Len(uri)))
               named(k) == { i \in 1..Len(q) : q[i][1] = << k >> }
           IN /\ uri[4] = "?"
              /\ \E i \in named("per_page") : q[i][2] = <<"5", "0">>
              /\ \E i \in named("page") : Atoi(q[i][2]) = last.page
              /\ Cardinality(named("per_page")) = 1
              /\ Cardinality(named("page")) = 1
              /\ Cardinality(named("hostname")) =
                    (IF last.ch.Hostname = << >> THEN 0 ELSE 1)
              /\ \A i \in named("hostname") : q[i][2] = last.ch.Hostname
              /\ Len(q) = 2 + Cardinality(named("hostname"))

C2_Witness ==
    /\ last.op = "Filter"
    /\ last.ch = Decorated(<< >>)
    /\ Len(calls) = 1
    /\ Len(calls[1].uri) > 4

C4_FirstPageOnly ==
    last.op = "IDByName" =>
        /\ Len(calls) = 1
        /\ calls[1].method = "GET"
        /\ LET uri == calls[1].uri
               q == ParseQuery(SubSeq(uri, 5, Len(uri)))
           IN /\ SubSeq(uri, 1, 4) =
                    <<"/zones/">> \o last.zoneID \o <<"/custom_hostnames", "?">>
              /\ \A i \in 1..Len(q) : q[i][1] = <<"page">> => q[i][2] = <<"1">>
              /\ \E i \in 1..Len(q) : q[i] = << <<"page">>, <<"1">> >>
              /\ \E i \in 1..Len(q) : q[i] = << <<"hostname">>, last.hostname >>
        /\ LET page == UnmarshalCustomHostnameListResponse(last.out.res).Result
           IN (/\ last.out.err = NoError
               /\ UnmarshalCustomHostnameListResponseError(last.out.res) = NoError
               /\ \A i \in 1..Len(page) : page[i].Hostname # last.hostname)
              => /\ last.ret.err = << "the custom hostname could not be found" >>
                 /\ last.ret.id = << >>

C4_Witness ==
    /\ last.op = "IDByName"
    /\ last.out.kind = "served"
    /\ last.out.err = NoError
    /\ last.ret.err = << "the custom hostname could not be found" >>
    /\ Len(UnmarshalCustomHostnameListResponse(last.out.res).Result) = 1
    /\ \E i \in 1..Len(store) :
          /\ store[i].zone = last.zoneID
          /\ DocHostname(store[i].doc) = last.hostname

\* C5: ListCustomHostnames(zoneID, page) issues the request and returns the
\* values of FilterCustomHostnames(zoneID, page, empty filter) for the same
\* transport outcome: a GET of the zone's collection whose query is
\* page=<page> and per_page=50 without a hostname parameter.
C5_ListIsFilterEmpty ==
    last.op = "List" =>
        LET f == FilterCustomHostnames(last.zoneID, last.page,
                                       ZeroCustomHostname, last.out)
        IN /\ calls = f.calls
           /\ last.ret.list = f.list
           /\ last.ret.info = f.info
           /\ last.ret.err = f.err
           /\ Len(calls) = 1
           /\ calls[1].method = "GET"
           /\ SubSeq(calls[1].uri, 1, 4) =
                 <<"/zones/">> \o last.zoneID \o <<"/custom_hostnames", "?">>
           /\ ParseQuery(SubSeq(calls[1].uri, 5, Len(calls[1].uri))) =
                 << << <<"page">>, Itoa(last.page) >>,
                    << <<"per_page">>, <<"5", "0">> >> >>

C5_Witness ==
    /\ last.op = "List"
    /\ last.page = 2
    /\ last.out.kind = "served"
    /\ last.ret.err = NoError
    /\ Len(last.ret.list) = 1
    /\ last.ret.info.Page = 2

\* C6: DeleteCustomHostname returns no error when the transport call
\* succeeds and the body parses, whatever was parsed; it returns the
\* transport's error wrapped as a request error when the call fails, and the
\* decoder's error wrapped as an unmarshal error when the body does not
\* parse.
C6_DeleteResult ==
    last.op = "Delete" =>
        LET uerr == UnmarshalCustomHostnameResponseError(last.out.res)
        IN /\ last.out.err # NoError =>
                last.ret.err = << errMakeRequestError >> \o last.out.err
           /\ (last.out.err = NoError /\ uerr = NoError) =>
                last.ret.err = NoError
           /\ (last.out.err = NoError /\ uerr # NoError) =>
                last.ret.err = << errUnmarshalError >> \o uerr

C6_Witness ==
    /\ last.op = "Delete"
    /\ last.out.err = NoError
    /\ last.out.res = JSONNull
    /\ last.ret.err = NoError

\* C7: a Get that the service answers, for an id that a Create returned from
\* the service and that no Delete has removed since, returns without error a
\* value whose hostname is the hostname that was created.
C7_CreateThenGet ==
    last.op = "Get" /\ last.out.kind = "served" =>
        \A c \in created :
            (c[1] = last.zoneID /\ c[2] = last.id) =>
                /\ last.ret.err = NoError
                /\ last.ret.ch.Hostname = c[3]
                /\ last.ret.ch.ID = last.id

C7_Witness ==
    /\ last.op = "Get"
    /\ last.out.kind = "served"
    /\ << last.zoneID, last.id, <<"a", "&", " ">> >> \in created
    /\ last.ret.ch.Hostname = <<"a", "&", " ">>

\* C8: each of Create, Get, Filter, List and Delete returns a failed
\* transport call as the transport's error wrapped as a request error, and a
\* body that does not parse as the decoder's error wrapped as an unmarshal
\* error, never as a request error.
C8_DistinctErrorKinds ==
    last.op \in {"Create", "Get", "Filter", "List", "Delete"} =>
        LET uerr == IF last.op \in {"Create", "Get", "Delete"}
                    THEN UnmarshalCustomHostnameResponseError(last.out.res)
                    ELSE UnmarshalCustomHostnameListResponseError(last.out.res)
        IN /\ last.out.err # NoError =>
                last.ret.err = << errMakeRequestError >> \o last.out.err
           /\ (last.out.err = NoError /\ uerr # NoError) =>
                /\ last.ret.err = << errUnmarshalError >> \o uerr
                /\ Head(last.ret.err) # errMakeRequestError

\* C9: every Create, Get, Filter, List, Delete and CustomHostnameIDByName
\* makes exactly one transport call, whether it succeeds or fails, with the
\* method, path and body of the operation.
C9_OneCall ==
    last.op \in {"Create", "Get", "Filter", "List", "Delete", "IDByName"} =>
        /\ Len(calls) = 1
        /\ LET req == calls[1]
               collection == <<"/zones/">> \o last.zoneID \o <<"/custom_hostnames">>
               item == <<"/zones/">> \o last.zoneID \o <<"/custom_hostnames/">>
                       \o last.id
           IN CASE last.op = "Create" ->
                     /\ req.method = "POST"
                     /\ req.uri = collection
                     /\ req.params = << last.ch >>
                [] last.op = "Get" ->
                     req.method = "GET" /\ req.uri = item /\ req.params = << >>
                [] last.op = "Delete" ->
                     req.method = "DELETE" /\ req.uri = item /\ req.params = << >>
                [] OTHER ->
                     /\ req.method = "GET"
                     /\ SubSeq(req.uri, 1, 4) = collection \o <<"?">>
                     /\ req.params = << >>

C9_Witness ==
    /\ last.op = "Delete"
    /\ last.out.kind = "failed"
    /\ last.ret.err # NoError
    /\ Len(calls) = 1

\* C10: CreateCustomHostname returns a response exactly when it returns no
\* error, for every body the transport can return.
C10_ResponseOrError ==
    last.op = "Create" =>
        /\ last.ret.err = NoError => last.ret.ptr # << >>
        /\ last.ret.err # NoError => last.ret.ptr = << >>
====
